---- MODULE Spec2Model ----
(***************************************************************************)
(* A model of the Malaysian Tax Input Program (src/Tax/functions.py and    *)
(* src/Tax/main.py).                                                       *)
(*                                                                         *)
(* Text is a sequence of characters, each character a one-token string.    *)
(* Besides the ASCII characters the alphabet holds "u0663", standing for   *)
(* U+0663 ARABIC-INDIC DIGIT THREE, a character for which Python's         *)
(* str.isdigit() is true although it is not one of 0-9.                    *)
(* Amounts of money (Python floats holding a value with two decimals) are  *)
(* integers counting cents.                                                *)
(***************************************************************************)
EXTENDS Integers, Sequences, FiniteSets

VARIABLES
    \* verify_user called on its own: its arguments and what it returned
    ic_number, password, result,
    \* calculate_tax called on its own: the relief and two calculations
    tax_relief, calc1, calc2,
    \* the files users.csv and tax_records.csv
    users_file, tax_file,
    \* save_to_csv and read_from_csv called on their own: the last data
    \* saved, the file before that save, whether it raised, the data of the
    \* successful saves in order, what read_from_csv returned last and
    \* whether nothing was saved since
    last_data, before, raised, appended, viewed, fresh,
    \* main.py: where the program is, how many times it was started, the
    \* identity and password login() holds, what verify_user returned in
    \* this run ("none" before the call), how many times it was called and
    \* how many records were saved in this run, the exit status (-1 while
    \* running), and every identity register_user has accepted
    pc, runs, login_ic, login_pw, verified, attempts, saved, exit_status,
    registered

sessionVars == <<pc, runs, login_ic, login_pw, verified, attempts, saved,
                 exit_status, registered>>
verifyVars == <<ic_number, password, result>>
taxVars == <<tax_relief, calc1, calc2>>
storeVars == <<last_data, before, raised, appended, viewed, fresh>>
fileVars == <<users_file, tax_file>>

vars == <<verifyVars, taxVars, storeVars, fileVars, sessionVars>>

----------------------------------------------------------------------------
(* Python text *)

AsciiDigits == {"0", "1", "2", "3", "4", "5", "6", "7", "8", "9"}

\* the characters c with c.isdigit(): the ASCII digits and the other Unicode
\* digits, of which the alphabet holds one
UnicodeDigits == AsciiDigits \cup {"u0663"}

\* the characters str.strip() removes
Whitespace == {" ", "\t"}

\* a value that is not a str (verify_user's isinstance test)
NotStr == <<"<not a str>">>

isinstance_str(x) == x # NotStr

RECURSIVE lstrip(_)
lstrip(s) ==
    IF s # <<>> /\ Head(s) \in Whitespace THEN lstrip(Tail(s)) ELSE s

RECURSIVE rstrip(_)
rstrip(s) ==
    IF s # <<>> /\ s[Len(s)] \in Whitespace
    THEN rstrip(SubSeq(s, 1, Len(s) - 1))
    ELSE s

\* s.strip()
strip(s) == rstrip(lstrip(s))

\* s.isdigit(): non-empty and every character a Unicode digit
isdigit(s) == s # <<>> /\ \A i \in 1..Len(s) : s[i] \in UnicodeDigits

\* s[-4:]
last4(s) == IF Len(s) <= 4 THEN s ELSE SubSeq(s, Len(s) - 3, Len(s))

\* the length of an IC number
IcLen == 12

----------------------------------------------------------------------------
(* functions.py: verify_user *)

\* (mutant) the password compared as typed, not trimmed
verify_user_no_strip(ic, pw) ==
    IF ~isinstance_str(ic) \/ ~isinstance_str(pw) THEN FALSE
    ELSE IF Len(strip(ic)) # IcLen \/ ~isdigit(strip(ic)) THEN FALSE
    ELSE pw = last4(strip(ic))

verify_user(ic, pw) ==
    IF ~isinstance_str(ic) \/ ~isinstance_str(pw) THEN FALSE
    ELSE IF Len(strip(ic)) # IcLen \/ ~isdigit(strip(ic)) THEN FALSE
    ELSE strip(pw) = last4(strip(ic))

----------------------------------------------------------------------------
(* functions.py: calculate_tax                                             *)
(*                                                                         *)
(* Amounts are cents.  A product amount * rate is exact in hundredths of a *)
(* cent, so the running tax is a pair: c cents and f hundredths of a cent, *)
(* f < 100.  The float computation differs from the exact one by far less  *)
(* than a hundredth of a cent, so round(tax, 2) is the exact rounding      *)
(* except on a tie (f = 50), where the binary value of the float decides:  *)
(* the direction of a tie is the parameter tie_up.                         *)

\* float('inf'): above every amount of the model
Inf == 2147483647

\* bands: (upper_limit in cents, marginal rate in percent)
bands ==
    << <<500000, 0>>, <<2000000, 1>>, <<3500000, 3>>, <<5000000, 6>>,
       <<7000000, 11>>, <<10000000, 19>>, <<40000000, 25>>, <<60000000, 26>>,
       <<200000000, 28>>, <<Inf, 30>> >>

min(a, b) == IF a <= b THEN a ELSE b

\* tax += taxable_in_slab * rate
tax_add(tax, taxable_in_slab, rate) ==
    LET h == tax.f + (taxable_in_slab % 100) * rate
    IN  [c |-> tax.c + (taxable_in_slab \div 100) * rate + h \div 100,
         f |-> h % 100]

\* the loop over the bands from band i on, with the running lower and tax
\* (mutant) the whole chargeable income taxed at the rate of its band
RECURSIVE band_loop_flat(_, _, _, _)
band_loop_flat(i, lower, tax, chargeable) ==
    IF i > Len(bands) THEN tax
    ELSE LET upper == bands[i][1]
             rate == bands[i][2]
             tax1 == IF chargeable > lower
                     THEN tax_add([c |-> 0, f |-> 0], chargeable, rate)
                     ELSE tax
         IN  IF chargeable <= upper THEN tax1
             ELSE band_loop_flat(i + 1, upper, tax1, chargeable)

\* (mutant) tax = taxable_in_slab * rate, for tax += taxable_in_slab * rate
RECURSIVE band_loop_assign(_, _, _, _)
band_loop_assign(i, lower, tax, chargeable) ==
    IF i > Len(bands) THEN tax
    ELSE LET upper == bands[i][1]
             rate == bands[i][2]
             tax1 == IF chargeable > lower
                     THEN tax_add([c |-> 0, f |-> 0],
                                  min(chargeable, upper) - lower, rate)
                     ELSE tax
         IN  IF chargeable <= upper THEN tax1
             ELSE band_loop_assign(i + 1, upper, tax1, chargeable)

RECURSIVE band_loop(_, _, _, _)
band_loop(i, lower, tax, chargeable) ==
    IF i > Len(bands) THEN tax
    ELSE LET upper == bands[i][1]
             rate == bands[i][2]
             tax1 == IF chargeable > lower
                     THEN tax_add(tax, min(chargeable, upper) - lower, rate)
                     ELSE tax
         IN  IF chargeable <= upper THEN tax1
             ELSE band_loop(i + 1, upper, tax1, chargeable)

\* round(tax, 2), in cents

round2(tax, tie_up) ==
    IF tax.f > 50 \/ (tax.f = 50 /\ tie_up) THEN tax.c + 1 ELSE tax.c

calculate_tax(income, relief, tie_up) ==
    LET chargeable == income - relief
    IN  IF chargeable <= 0 THEN 0
        ELSE round2(band_loop(1, 0, [c |-> 0, f |-> 0], chargeable), tie_up)

----------------------------------------------------------------------------
(* pandas: a CSV file and the DataFrame read from it                       *)
(*                                                                         *)
(* A file is absent, or holds a header line and data lines, each line a    *)
(* sequence of cells of text; a file of zero bytes has no header.  A       *)
(* DataFrame is its sequence of rows.  A cell of column ic_number is       *)
(* [t, v]: t its Python type ("str" or "int") and v its text, str(cell);   *)
(* a cell of a float column is its value in cents.                         *)

DigitChars == <<"0", "1", "2", "3", "4", "5", "6", "7", "8", "9">>

DigitVal(ch) == (CHOOSE i \in 1..10 : DigitChars[i] = ch) - 1

\* str(n) of an integer n >= 0
RECURSIVE nat_str(_)
nat_str(n) ==
    IF n < 10 THEN <<DigitChars[n + 1]>>
    ELSE nat_str(n \div 10) \o <<DigitChars[(n % 10) + 1]>>

\* int(s) of a text of ASCII digits
RECURSIVE nat_val(_)
nat_val(s) ==
    IF s = <<>> THEN 0
    ELSE nat_val(SubSeq(s, 1, Len(s) - 1)) * 10 + DigitVal(s[Len(s)])

\* repr(x) of a float x >= 0 with two decimals, as to_csv writes it:
\* 50000.0, 150.5, 0.05
float_repr(cents) ==
    LET frac == cents % 100
    IN  nat_str(cents \div 100) \o <<".">> \o
        (IF frac % 10 = 0 THEN <<DigitChars[(frac \div 10) + 1]>>
         ELSE <<DigitChars[(frac \div 10) + 1], DigitChars[(frac % 10) + 1]>>)

\* a text read_csv parses as an integer
is_int_text(s) == s # <<>> /\ \A i \in 1..Len(s) : s[i] \in AsciiDigits

\* str(int(s)): an integer has no leading zeros
RECURSIVE int_str(_)
int_str(s) ==
    IF Len(s) > 1 /\ Head(s) = "0" THEN int_str(Tail(s)) ELSE s

\* a text read_csv parses as a float with one or two decimals
is_float_text(s) ==
    \E k \in 2..(Len(s) - 1) :
        /\ s[k] = "."
        /\ Len(s) - k <= 2
        /\ is_int_text(SubSeq(s, 1, k - 1))
        /\ is_int_text(SubSeq(s, k + 1, Len(s)))

\* float(s) in cents
float_val(s) ==
    LET k == CHOOSE j \in 1..Len(s) : s[j] = "."
        frac == SubSeq(s, k + 1, Len(s))
    IN  nat_val(SubSeq(s, 1, k - 1)) * 100
        + (IF Len(frac) = 1 THEN DigitVal(frac[1]) * 10 ELSE nat_val(frac))

Absent == [exists |-> FALSE, header |-> <<>>, lines |-> <<>>]

\* pd.read_csv raises on a file of zero bytes (EmptyDataError)
Readable(file) == file.exists /\ file.header # <<>>

\* the cells of column k, parsed: a column whose every cell is an integer
\* becomes int64, any other column of text stays text
ic_column(lines, k) ==
    IF lines # <<>> /\ \A i \in 1..Len(lines) : is_int_text(lines[i][k])
    THEN [i \in 1..Len(lines) |-> [t |-> "int", v |-> int_str(lines[i][k])]]
    ELSE [i \in 1..Len(lines) |-> [t |-> "str", v |-> lines[i][k]]]

\* a cell of a float column
float_cell(s) ==
    IF is_float_text(s) THEN float_val(s)
    ELSE IF is_int_text(s) THEN nat_val(s) * 100
    ELSE 0 - 1

USERS_HEADER == <<"ic_number">>
TAX_HEADER == <<"ic_number", "income", "tax_relief", "tax_payable">>

\* pd.read_csv(USERS_FILE)
read_users(file) ==
    [i \in 1..Len(file.lines) |->
        [ic_number |-> ic_column(file.lines, 1)[i]]]

\* pd.read_csv(filename) of the tax records
read_tax(file) ==
    [i \in 1..Len(file.lines) |->
        [ic_number |-> ic_column(file.lines, 1)[i],
         income |-> float_cell(file.lines[i][2]),
         tax_relief |-> float_cell(file.lines[i][3]),
         tax_payable |-> float_cell(file.lines[i][4])]]

\* df.to_csv(USERS_FILE, index=False)
write_users(df) ==
    [exists |-> TRUE, header |-> USERS_HEADER,
     lines |-> [i \in 1..Len(df) |-> <<df[i].ic_number.v>>]]

tax_line(row) ==
    <<row.ic_number.v, float_repr(row.income), float_repr(row.tax_relief),
      float_repr(row.tax_payable)>>

\* df.to_csv(filename, index=False) of the tax records
write_tax(df) ==
    [exists |-> TRUE, header |-> TAX_HEADER,
     lines |-> [i \in 1..Len(df) |-> tax_line(df[i])]]

----------------------------------------------------------------------------
(* functions.py: save_to_csv, read_from_csv                                *)
(*                                                                         *)
(* data is [dict, items]: whether it is a dict, and its items as a         *)
(* function from keys to values.                                           *)

required_keys == {"ic_number", "income", "tax_relief", "tax_payable"}

\* pd.DataFrame([{...}]): one row, the identity as str, the amounts as float
df_new(data) ==
    << [ic_number |-> [t |-> "str", v |-> data.items["ic_number"]],
        income |-> data.items["income"],
        tax_relief |-> data.items["tax_relief"],
        tax_payable |-> data.items["tax_payable"]] >>

\* (mutant) the destination created before the record is validated
save_to_csv_create_first(data, file) ==
    IF ~data.dict \/ required_keys \ DOMAIN data.items # {}
    THEN [file |-> IF file.exists THEN file ELSE write_tax(<<>>),
          raised |-> TRUE]
    ELSE IF file.exists
    THEN IF Readable(file)
         THEN [file |-> write_tax(read_tax(file) \o df_new(data)),
               raised |-> FALSE]
         ELSE [file |-> [file EXCEPT !.lines = @ \o <<tax_line(df_new(data)[1])>>],
               raised |-> FALSE]
    ELSE [file |-> write_tax(df_new(data)), raised |-> FALSE]

\* the file afterwards, and whether ValueError was raised
save_to_csv(data, file) ==
    IF ~data.dict \/ required_keys \ DOMAIN data.items # {}
    THEN [file |-> file, raised |-> TRUE]
    ELSE IF file.exists
    THEN IF Readable(file)
         THEN [file |-> write_tax(read_tax(file) \o df_new(data)),
               raised |-> FALSE]
         ELSE \* except: append the new line without reading
              [file |-> [file EXCEPT !.lines = @ \o <<tax_line(df_new(data)[1])>>],
               raised |-> FALSE]
    ELSE [file |-> write_tax(df_new(data)), raised |-> FALSE]

\* None, or the DataFrame
read_from_csv(file) ==
    IF ~file.exists THEN [none |-> TRUE, df |-> <<>>]
    ELSE IF ~Readable(file) THEN [none |-> TRUE, df |-> <<>>]
    ELSE [none |-> FALSE, df |-> read_tax(file)]

----------------------------------------------------------------------------
(* main.py *)

\* line 24: the identity register_user accepts
valid_ic(ic) == Len(ic) = IcLen /\ isdigit(ic)

\* register_user, lines 31-44: USERS_FILE afterwards
register_store(ic, file) ==
    LET user_row == <<[ic_number |-> [t |-> "str", v |-> ic]]>>
    IN  IF file.exists
        THEN IF Readable(file) /\ file.header = USERS_HEADER
             THEN LET df == read_users(file)
                  IN  \* df['ic_number'].astype(str).tolist()
                      IF \E i \in 1..Len(df) : df[i].ic_number.v = ic
                      THEN file
                      ELSE write_users(df \o user_row)
             ELSE \* except: the file is written anew
                  write_users(user_row)
        ELSE write_users(user_row)

\* login, line 50: where login() goes first; an unreadable USERS_FILE
\* raises, and the uncaught exception ends the program
login_entry(file) ==
    IF ~file.exists THEN "login_register"
    ELSE IF ~Readable(file) THEN "crash"
    ELSE IF read_users(file) = <<>> THEN "login_register"
    ELSE "login_ic"

None == <<"<None>">>

\* (mutant) the identity returned whatever verify_user said
login_result_unchecked(ic, pw) == ic

\* login, lines 58-63: what login() returns
login_result(ic, pw) == IF verify_user(ic, pw) THEN ic ELSE None

\* __main__, lines 141-144: if ic: main_menu(ic) else: sys.exit(1)
after_login(ic) ==
    IF ic # None /\ ic # <<>>
    THEN [pc |-> "menu", exit_status |-> 0 - 1]
    ELSE [pc |-> "sys_exit", exit_status |-> 1]

\* prompt_income_and_relief: the first input that is not negative
RECURSIVE prompt_float(_)
prompt_float(tries) ==
    IF Head(tries) < 0 THEN prompt_float(Tail(tries)) ELSE Head(tries)

----------------------------------------------------------------------------
(* State not used by a specification *)

NoCalc == [done |-> FALSE, income |-> 0, tax |-> 0]

NotDict == [dict |-> FALSE, items |-> <<>>]

NoFrame == [none |-> TRUE, df |-> <<>>]

IdleVerify == ic_number = <<>> /\ password = <<>> /\ result = "none"

IdleTax == tax_relief = 0 /\ calc1 = NoCalc /\ calc2 = NoCalc

IdleStore ==
    /\ last_data = NotDict /\ before = Absent /\ raised = FALSE
    /\ appended = <<>> /\ viewed = NoFrame /\ fresh = FALSE

IdleFiles == users_file = Absent /\ tax_file = Absent

IdleSession ==
    /\ pc = "off" /\ runs = 0 /\ login_ic = <<>> /\ login_pw = <<>>
    /\ verified = "none" /\ attempts = 0 /\ saved = 0 /\ exit_status = 0 - 1
    /\ registered = {}

----------------------------------------------------------------------------
(* verify_user called on its own, on identities and passwords around the   *)
(* 12-digit format                                                         *)

\* how many whitespace characters may surround an input
MaxPad == 1

Pad(n) == [i \in 1..n |-> IF i % 2 = 1 THEN " " ELSE "\t"]

Rep(c, n) == [i \in 1..n |-> c]

HeadChars == {"1", " ", "a", "u0663"}
TailChars == {"0", "9", "u0663"}

\* identities of 11, 12 and 13 characters: a run of one character, then any
\* four characters, with or without surrounding whitespace; and a non-text
IcInputs ==
    { Pad(l) \o Rep(h, n) \o t \o Pad(r) :
        l \in 0..MaxPad, r \in 0..MaxPad, h \in HeadChars,
        n \in (IcLen - 5)..(IcLen - 3), t \in [1..4 -> TailChars] }
    \cup {NotStr}

\* passwords near the identity's last four characters
PwInputs(ic) ==
    IF ~isinstance_str(ic) THEN {<<>>, <<"0", "0", "0", "0">>, NotStr}
    ELSE LET t == strip(ic)
             n == Len(t)
             cands == { last4(t), last4(ic),
                        SubSeq(t, 1, IF n < 4 THEN n ELSE 4),
                        SubSeq(t, IF n < 3 THEN 1 ELSE n - 2, n),
                        SubSeq(t, IF n < 5 THEN 1 ELSE n - 4, n),
                        <<"0", "0", "0", "0">>, <<>> }
         IN  { Pad(l) \o c \o Pad(r) :
                 l \in 0..MaxPad, r \in 0..MaxPad, c \in cands }
             \cup {NotStr}

InitVerify ==
    /\ ic_number \in IcInputs
    /\ password = <<>>
    /\ result = "none"
    /\ IdleTax /\ IdleStore /\ IdleFiles /\ IdleSession

Verify(pw) ==
    /\ result = "none"
    /\ password' = pw
    /\ result' = IF verify_user(ic_number, pw) THEN "True" ELSE "False"
    /\ UNCHANGED <<ic_number, taxVars, storeVars, fileVars, sessionVars>>

NextVerify == \E pw \in PwInputs(ic_number) : Verify(pw)

SpecVerify == InitVerify /\ [][NextVerify]_vars

----------------------------------------------------------------------------
(* calculate_tax called on its own, twice with the same relief, on incomes *)
(* around every band boundary                                              *)

\* how many half currency units around a boundary the incomes reach
MaxStep == 2

\* the band boundaries, and one income far into the last band (cents)
Boundaries ==
    { bands[i][1] : i \in 1..(Len(bands) - 1) } \cup {0, 500000000}

Deltas == { k * 50 : k \in (0 - MaxStep)..MaxStep } \cup {0 - 1, 1}

Reliefs == {0, 50, 100, 500000, 500001}

Incomes ==
    { x \in { b + d + r : b \in Boundaries, d \in Deltas, r \in {0, 500000} } :
        x >= 0 }

InitTax ==
    /\ tax_relief \in Reliefs
    /\ calc1 = NoCalc
    /\ calc2 = NoCalc
    /\ IdleVerify /\ IdleStore /\ IdleFiles /\ IdleSession

Calc1(income, tie_up) ==
    /\ ~calc1.done
    /\ calc1' = [done |-> TRUE, income |-> income,
                 tax |-> calculate_tax(income, tax_relief, tie_up)]
    /\ UNCHANGED <<tax_relief, calc2, verifyVars, storeVars, fileVars, sessionVars>>

\* round() is a function: the same income gives the same tax again
Calc2(income, tie_up) ==
    /\ calc1.done /\ ~calc2.done
    /\ income = calc1.income
          => calculate_tax(income, tax_relief, tie_up) = calc1.tax
    /\ calc2' = [done |-> TRUE, income |-> income,
                 tax |-> calculate_tax(income, tax_relief, tie_up)]
    /\ UNCHANGED <<tax_relief, calc1, verifyVars, storeVars, fileVars, sessionVars>>

NextTax ==
    \E income \in Incomes, tie_up \in BOOLEAN :
        \/ Calc1(income, tie_up)
        \/ Calc2(income, tie_up)

SpecTax == InitTax /\ [][NextTax]_vars

----------------------------------------------------------------------------
(* Claims about calculate_tax *)

\* the schedule as the specification states it: upper bounds in whole
\* currency units, rates in percent
RefUpper == <<5000, 20000, 35000, 50000, 70000, 100000, 400000, 600000, 2000000>>
RefRate == <<0, 1, 3, 6, 11, 19, 25, 26, 28, 30>>
RefLower(i) == IF i = 1 THEN 0 ELSE RefUpper[i - 1]

\* the part of chargeable (whole units) that lies in band i
RefSlab(i, chargeable) ==
    IF chargeable <= RefLower(i) THEN 0
    ELSE IF i <= Len(RefUpper) /\ chargeable > RefUpper[i]
         THEN RefUpper[i] - RefLower(i)
         ELSE chargeable - RefLower(i)

RECURSIVE RefSum(_, _)
RefSum(i, chargeable) ==
    IF i = 0 THEN 0
    ELSE RefSum(i - 1, chargeable) + RefSlab(i, chargeable) * RefRate[i]

\* the reference tax in cents of whole-unit income and relief (units * percent)
RefTax(income, relief) ==
    IF income - relief <= 0 THEN 0 ELSE RefSum(Len(RefRate), income - relief)

WholeUnits(calc) ==
    calc.done /\ calc.income % 100 = 0 /\ tax_relief % 100 = 0

\* C3: on whole-unit income and relief calculate_tax is the reference
\* marginal-band sum; calculate_tax(5000, 0) = 0.00 and
\* calculate_tax(25000, 5000) = 150.00.
C3_TaxIsMarginalBandSum ==
    \A calc \in {calc1, calc2} :
        /\ WholeUnits(calc)
              => calc.tax = RefTax(calc.income \div 100, tax_relief \div 100)
        /\ (calc.done /\ calc.income = 500000 /\ tax_relief = 0)
              => calc.tax = 0
        /\ (calc.done /\ calc.income = 2500000 /\ tax_relief = 500000)
              => calc.tax = 15000

\* a whole-unit income past the top boundary, taxed in every band
C3_Witness ==
    /\ WholeUnits(calc1) /\ calc1.income - tax_relief = 200000100
    /\ calc1.tax = 52840030
    /\ WholeUnits(calc2) /\ calc2.income = 2500000 /\ tax_relief = 500000
    /\ calc2.tax = 15000

\* C4: for a fixed relief, income1 <= income2 implies
\* calculate_tax(income1, relief) <= calculate_tax(income2, relief).
C4_MonotoneInIncome ==
    (calc1.done /\ calc2.done)
        => /\ calc1.income <= calc2.income => calc1.tax <= calc2.tax
           /\ calc2.income <= calc1.income => calc2.tax <= calc1.tax

\* two incomes half a unit apart on either side of the 20,000 boundary, the
\* lower one on a rounding tie
C4_Witness ==
    /\ calc1.done /\ calc2.done
    /\ calc1.income - tax_relief = 1999950
    /\ calc2.income - tax_relief = 2000050
    /\ calc1.tax < calc2.tax

----------------------------------------------------------------------------
(* save_to_csv and read_from_csv called on their own, on a destination     *)
(* that starts absent                                                      *)

\* how many records are appended
MaxSaves == 3

\* two identities, one with a leading zero
IC_012345678901 == <<"0", "1", "2", "3", "4", "5", "6", "7", "8", "9", "0", "1">>
IC_123456789012 == <<"1", "2", "3", "4", "5", "6", "7", "8", "9", "0", "1", "2">>

StoreIdentities == {IC_012345678901, IC_123456789012}

\* 25000.0, 5000.0, 150.0 and 100.5, 0.05, 0.0
StoreAmounts ==
    { [income |-> 2500000, tax_relief |-> 500000, tax_payable |-> 15000],
      [income |-> 10050, tax_relief |-> 5, tax_payable |-> 0] }

Dict(ic, a) ==
    [dict |-> TRUE,
     items |-> [k \in required_keys |->
                  IF k = "ic_number" THEN ic
                  ELSE IF k = "income" THEN a.income
                  ELSE IF k = "tax_relief" THEN a.tax_relief
                  ELSE a.tax_payable]]

Without(data, key) ==
    [dict |-> TRUE,
     items |-> [k \in required_keys \ {key} |-> data.items[k]]]

WellFormed == { Dict(ic, a) : ic \in StoreIdentities, a \in StoreAmounts }

\* well-formed records, records lacking one required key, and a non-dict
StoreInputs ==
    WellFormed
    \cup { Without(Dict(IC_123456789012, a), k) :
             a \in StoreAmounts, k \in required_keys }
    \cup {NotDict}

InitStore ==
    /\ IdleStore /\ IdleFiles /\ IdleVerify /\ IdleTax /\ IdleSession

Save(data) ==
    /\ Len(appended) < MaxSaves
    /\ LET r == save_to_csv(data, tax_file)
       IN  /\ tax_file' = r.file
           /\ raised' = r.raised
           /\ appended' = IF r.raised THEN appended ELSE Append(appended, data)
    /\ last_data' = data
    /\ before' = tax_file
    /\ fresh' = FALSE
    /\ UNCHANGED <<viewed, users_file, verifyVars, taxVars, sessionVars>>

Read ==
    /\ viewed' = read_from_csv(tax_file)
    /\ fresh' = TRUE
    /\ UNCHANGED <<last_data, before, raised, appended, fileVars, verifyVars,
                   taxVars, sessionVars>>

NextStore ==
    \/ \E data \in StoreInputs : Save(data)
    \/ Read

SpecStore == InitStore /\ [][NextStore]_vars

----------------------------------------------------------------------------
(* Claims about save_to_csv and read_from_csv *)

LacksKey(data) == data.dict /\ required_keys \ DOMAIN data.items # {}

\* C5: after save_to_csv(record, f) of a well-formed record, read_from_csv(f)
\* returns rows whose last one equals the record field for field: the
\* identity as text, the amounts to 2 decimals.
C5_RoundTrip ==
    (fresh /\ ~raised /\ last_data \in WellFormed)
        => /\ ~viewed.none
           /\ viewed.df # <<>>
           /\ LET row == viewed.df[Len(viewed.df)]
              IN  /\ row.ic_number.v = last_data.items["ic_number"]
                  /\ row.income = last_data.items["income"]
                  /\ row.tax_relief = last_data.items["tax_relief"]
                  /\ row.tax_payable = last_data.items["tax_payable"]

\* C6: save_to_csv of a record lacking a required field raises and leaves
\* the destination as it was: absent if it was absent, the same content if
\* it existed.
C6_MissingFieldLeavesDestination ==
    LacksKey(last_data) => (raised /\ tax_file = before)

\* a record without tax_payable refused with two rows in the destination
C6_Witness ==
    /\ LacksKey(last_data) /\ "tax_payable" \notin DOMAIN last_data.items
    /\ raised /\ before.exists /\ Len(before.lines) = 2 /\ tax_file = before

\* C7: a successful append keeps every earlier row of the destination,
\* unchanged and in order, and adds the new record as the one last row.
C7_PriorRowsPreserved ==
    (~raised /\ last_data \in WellFormed)
        => /\ Len(tax_file.lines) = Len(before.lines) + 1
           /\ \A i \in 1..Len(before.lines) :
                  tax_file.lines[i] = before.lines[i]
           /\ tax_file.lines[Len(tax_file.lines)]
                  = tax_line(df_new(last_data)[1])

----------------------------------------------------------------------------
(* The program, started again and again on the files it leaves behind      *)

\* how many times the program is started
MaxRuns == 3

\* how many tax records are saved
MaxRecords == 2

ModeInputs == {<<"1">>, <<"2">>, <<" ", "2">>, <<>>}

IcPrompts ==
    {IC_012345678901, IC_123456789012, <<" ">> \o IC_123456789012,
     <<"1", "2">>}

PwPrompts ==
    {<<"8", "9", "0", "1">>, <<"9", "0", "1", "2", " ">>,
     <<"0", "0", "0", "0">>}

ChoiceInputs == {<<"1">>, <<"2">>, <<"3">>, <<"4">>}

\* what is typed at the income and the relief prompt (cents)
AmountPrompts ==
    { [income |-> <<2500000>>, relief |-> <<500000>>],
      [income |-> <<0 - 100, 2000050>>, relief |-> <<0 - 1, 0>>] }

Start ==
    /\ pc \in {"off", "goodbye", "sys_exit", "crash"}
    /\ runs < MaxRuns
    /\ runs' = runs + 1
    /\ pc' = "mode"
    /\ login_ic' = <<>> /\ login_pw' = <<>>
    /\ verified' = "none" /\ attempts' = 0 /\ saved' = 0
    /\ exit_status' = 0 - 1
    /\ viewed' = NoFrame
    /\ UNCHANGED <<registered, fileVars, verifyVars, taxVars, last_data,
                   before, raised, appended, fresh>>

InitSession ==
    /\ IdleSession /\ IdleFiles /\ IdleStore /\ IdleVerify /\ IdleTax

\* lines 134-140
ChooseMode(text) ==
    /\ pc = "mode"
    /\ pc' = IF strip(text) = <<"2">> THEN "register"
             ELSE login_entry(users_file)
    /\ exit_status' = IF pc' = "crash" THEN 1 ELSE exit_status
    /\ UNCHANGED <<runs, login_ic, login_pw, verified, attempts, saved,
                   registered, fileVars, verifyVars, taxVars, storeVars>>

\* register_user, called by __main__ (line 136) or by login (line 52)
Register(text) ==
    /\ pc \in {"register", "login_register"}
    /\ LET ic == strip(text)
       IN  IF ~valid_ic(ic)
           THEN UNCHANGED <<pc, login_ic, users_file, registered,
                            exit_status>>
           ELSE /\ users_file' = register_store(ic, users_file)
                /\ registered' = registered \cup {ic}
                /\ IF pc = "register"
                   THEN /\ pc' = login_entry(users_file')
                        /\ UNCHANGED login_ic
                   ELSE /\ pc' = "password"
                        /\ login_ic' = ic
                /\ exit_status' = IF pc' = "crash" THEN 1 ELSE exit_status
    /\ UNCHANGED <<runs, login_pw, verified, attempts, saved, tax_file,
                   verifyVars, taxVars, storeVars>>

\* login, line 55
LoginIc(text) ==
    /\ pc = "login_ic"
    /\ login_ic' = strip(text)
    /\ pc' = "password"
    /\ UNCHANGED <<runs, login_pw, verified, attempts, saved, exit_status,
                   registered, fileVars, verifyVars, taxVars, storeVars>>

\* login, lines 57-63, and __main__, lines 141-144
Password(text) ==
    /\ pc = "password"
    /\ login_pw' = strip(text)
    /\ verified' = IF verify_user(login_ic, login_pw') THEN "True" ELSE "False"
    /\ attempts' = attempts + 1
    /\ LET ic == login_result(login_ic, login_pw')
       IN  /\ pc' = after_login(ic).pc
           /\ exit_status' = after_login(ic).exit_status
    /\ UNCHANGED <<runs, login_ic, saved, registered, fileVars, verifyVars,
                   taxVars, storeVars>>

\* main_menu, choice 1
MenuCalculate(text, amounts, tie_up) ==
    /\ pc = "menu" /\ strip(text) = <<"1">>
    /\ Len(tax_file.lines) < MaxRecords
    /\ LET income == prompt_float(amounts.income)
           relief == prompt_float(amounts.relief)
           tax == calculate_tax(income, relief, tie_up)
           data == [dict |-> TRUE,
                    items |-> [k \in required_keys |->
                                 IF k = "ic_number" THEN login_ic
                                 ELSE IF k = "income" THEN income
                                 ELSE IF k = "tax_relief" THEN relief
                                 ELSE tax]]
           r == save_to_csv(data, tax_file)
       IN  /\ tax_file' = r.file
           /\ saved' = IF r.raised THEN saved ELSE saved + 1
    /\ UNCHANGED <<pc, runs, login_ic, login_pw, verified, attempts,
                   exit_status, registered, users_file, verifyVars, taxVars,
                   storeVars>>

\* main_menu, choice 2: view_records
MenuView(text) ==
    /\ pc = "menu" /\ strip(text) = <<"2">>
    /\ viewed' = read_from_csv(tax_file)
    /\ UNCHANGED <<sessionVars, fileVars, verifyVars, taxVars, last_data,
                   before, raised, appended, fresh>>

\* main_menu, choice 3: the loop ends and so does the program
MenuExit(text) ==
    /\ pc = "menu" /\ strip(text) = <<"3">>
    /\ pc' = "goodbye"
    /\ exit_status' = 0
    /\ UNCHANGED <<runs, login_ic, login_pw, verified, attempts, saved,
                   registered, fileVars, verifyVars, taxVars, storeVars>>

\* main_menu, any other choice
MenuInvalid(text) ==
    /\ pc = "menu" /\ strip(text) \notin {<<"1">>, <<"2">>, <<"3">>}
    /\ UNCHANGED vars

Next ==
    \/ Start
    \/ \E text \in ModeInputs : ChooseMode(text)
    \/ \E text \in IcPrompts : Register(text)
    \/ \E text \in IcPrompts : LoginIc(text)
    \/ \E text \in PwPrompts : Password(text)
    \/ \E text \in ChoiceInputs, amounts \in AmountPrompts, tie_up \in BOOLEAN :
          MenuCalculate(text, amounts, tie_up)
    \/ \E text \in ChoiceInputs : MenuView(text)
    \/ \E text \in ChoiceInputs : MenuExit(text)
    \/ \E text \in ChoiceInputs : MenuInvalid(text)

Spec == InitSession /\ [][Next]_vars

----------------------------------------------------------------------------
(* Claims about the program *)

\* C8: the main menu is entered only after verify_user returned true for the
\* identity and password of this login; when it returned false the program
\* has ended with exit status 1, after one credential check and without
\* having saved a tax record; left by menu choice 3 it ends with status 0.
C8_MenuOnlyAfterVerify ==
    /\ pc = "menu" => verified = "True"
    /\ verified = "False"
          => (pc = "sys_exit" /\ exit_status = 1 /\ saved = 0)
    /\ attempts <= 1
    /\ saved > 0 => verified = "True"
    /\ pc = "goodbye" => (exit_status = 0 /\ verified = "True")

\* a run refused at login, after a run that saved a record
C8_Witness ==
    /\ pc = "sys_exit" /\ verified = "False" /\ exit_status = 1
    /\ attempts = 1 /\ saved = 0
    /\ runs > 1 /\ Len(tax_file.lines) > 0

\* C9: the user registry holds exactly one row per distinct registered
\* identity; registering an identity again adds no row.
C9_OneRowPerIdentity ==
    Len(users_file.lines) = Cardinality(registered)

\* C10: an identity recorded by register_user stays in the registry, as the
\* 12-character text that was entered.
C10_IdentityKept ==
    \A ic \in registered :
        \E i \in 1..Len(users_file.lines) : users_file.lines[i][1] = ic

----------------------------------------------------------------------------
(* Claims about verify_user *)

\* an identity in the specified format: trimmed, exactly 12 characters, each
\* one of 0-9
ValidIdentity(ic) ==
    /\ isinstance_str(ic)
    /\ \E l \in 0..Len(ic), r \in 0..Len(ic) :
          /\ l + r + IcLen = Len(ic)
          /\ \A i \in 1..l : ic[i] \in Whitespace
          /\ \A i \in (Len(ic) - r + 1)..Len(ic) : ic[i] \in Whitespace
          /\ \A i \in (l + 1)..(l + IcLen) : ic[i] \in AsciiDigits

\* the 12 digits of a valid identity
Digits12(ic) ==
    LET l == CHOOSE k \in 0..Len(ic) :
                 /\ \A i \in 1..k : ic[i] \in Whitespace
                 /\ k < Len(ic) /\ ic[k + 1] \notin Whitespace
    IN  [i \in 1..IcLen |-> ic[l + i]]

\* pw is whitespace, then the four characters d, then whitespace
IsPadded(pw, d) ==
    /\ isinstance_str(pw)
    /\ \E l \in 0..Len(pw) :
          /\ l + 4 <= Len(pw)
          /\ \A i \in 1..Len(pw) :
                IF i > l /\ i <= l + 4 THEN pw[i] = d[i - l]
                ELSE pw[i] \in Whitespace

\* C1: verify_user returns false for every password when the trimmed
\* identity is not exactly 12 characters, each an ASCII digit 0-9.
C1_InvalidIdentityRejected ==
    (result # "none" /\ ~ValidIdentity(ic_number)) => result = "False"

\* C2: for a valid 12-digit identity and a text password, verify_user returns
\* true exactly when the trimmed password is the identity's last 4 digits.
C2_ValidIdentityIffLast4 ==
    (result # "none" /\ ValidIdentity(ic_number) /\ isinstance_str(password))
        => (result = "True"
              <=> IsPadded(password,
                           [k \in 1..4 |-> Digits12(ic_number)[IcLen - 4 + k]]))

\* a valid identity typed with surrounding whitespace, accepted with a
\* password typed with surrounding whitespace
C2_Witness ==
    /\ ValidIdentity(ic_number) /\ Len(ic_number) > IcLen
    /\ result = "True" /\ Len(password) > 4

====
